---- MODULE Spec2Model ----
(***************************************************************************)
(* Model of the two batch scripts of the repository:                       *)
(*   problem1.py  level counts + reservoir sample over the log lines       *)
(*   problem2.py  per-application and per-cluster time ranges              *)
(* Four specifications share the pure operators below:                     *)
(*   SpecLevels   one run of problem1.main                                 *)
(*   SpecRuns     two runs of problem1 on the same corpus and seed         *)
(*   SpecUniform  the reservoir over every sequence of draws at once       *)
(*   SpecTimes    one run of problem2.main                                 *)
(***************************************************************************)
EXTENDS Integers, Sequences, FiniteSets

VARIABLES
    \* ---- problem1.main (SpecLevels)
    pc1, log_path, line, total_lines, level_lines, counts, sample, n_kept,
    counts_csv,
    \* ---- two runs of problem1 (SpecRuns)
    corpus, stream, glob_order, run,
    \* ---- reservoir over all draw sequences (SpecUniform)
    u_fn, u_k, u_n, u_skipped, u_runs,
    \* ---- problem2.main (SpecTimes)
    pc2, fs_entries, archive_exists, todo, cur, n_files, n_lines,
    start_dt, end_dt, seen_ts, scanned,
    timeline_rows, cluster_counts, cluster_first, cluster_last,
    cluster_summary_rows

vars1 == <<pc1, log_path, line, total_lines, level_lines, counts, sample,
           n_kept, counts_csv>>
varsR == <<corpus, stream, glob_order, run>>
varsU == <<u_fn, u_k, u_n, u_skipped, u_runs>>
vars2 == <<pc2, fs_entries, archive_exists, todo, cur, n_files, n_lines,
           start_dt, end_dt, seen_ts, scanned,
           timeline_rows, cluster_counts, cluster_first, cluster_last,
           cluster_summary_rows>>
vars == <<vars1, varsR, varsU, vars2>>
\* what each part leaves alone: the variables of the other parts
others1 == <<varsR, varsU, vars2>>
othersR == <<vars1, varsU, vars2>>
othersU == <<vars1, varsR, vars2>>
others2 == <<vars1, varsR, varsU>>

(***************************************************************************)
(* Bounds of the model                                                     *)
(***************************************************************************)
\* lines of the stream beyond the reservoir capacity (problem1)
MaxOver == 2
\* log files matched by the glob in one walk (problem1)
MaxLogs == 3
\* qualifying lines beyond the capacity, and skipped lines (SpecUniform)
MaxExtra == 3
MaxSkipped == 3
\* capacities tried for reservoir_sample besides K (SpecUniform)
MaxSmallK == 3
\* entries of data/raw, log files of a directory, lines read in a directory
MaxDirs == 2
MaxFilesPerDir == 2
MaxLinesPerDir == 3

(***************************************************************************)
(* Program constants                                                       *)
(***************************************************************************)
\* problem1.py line 80: k = 10
K == 10

Levels == {"INFO", "WARN", "ERROR", "DEBUG"}
LevelOrder == <<"INFO", "WARN", "ERROR", "DEBUG">>
None == "None"

Range(s) == {s[i] : i \in DOMAIN s}

(***************************************************************************)
(* Lines of problem1.  A line is a sequence of tokens: one of the four     *)
(* level words, "w" (a run of other word characters) or "sp" (a run of     *)
(* non-word characters).  Two adjacent word tokens form one longer word.   *)
(***************************************************************************)
IsWordTok(t) == t \in Levels \cup {"w"}

\* LEVEL_RE = \b(INFO|WARN|ERROR|DEBUG)\b at position i of the line
LevelAt(ln, i) ==
    /\ ln[i] \in Levels
    /\ (i = 1 \/ ~IsWordTok(ln[i - 1]))
    /\ (i = Len(ln) \/ ~IsWordTok(ln[i + 1]))

\* LEVEL_RE.search(line): the leftmost match, or None; m.group(1)
LevelSearch(ln) ==
    LET hits == {i \in DOMAIN ln : LevelAt(ln, i)}
    IN  IF hits = {} THEN None
        ELSE ln[CHOOSE i \in hits : \A h \in hits : i <= h]

\* "INFO Started", "random text ERRORISH", "x WARN ERROR", "" (an empty line),
\* "[DEBUG]", "DEBUGERROR x"
LineInfo == <<"INFO", "sp", "w">>
LineErrorish == <<"w", "sp", "w", "sp", "ERROR", "w">>
LineWarnError == <<"w", "sp", "WARN", "sp", "ERROR">>
LineEmpty == <<>>
LineDebug == <<"sp", "DEBUG", "sp">>
LineDebugError == <<"DEBUG", "ERROR", "sp", "w">>

\* the lines the log_path-th file of the walk can hold
LogLines(path) ==
    IF path % 3 = 1 THEN {LineInfo, LineErrorish}
    ELSE IF path % 3 = 2 THEN {LineWarnError, LineEmpty}
    ELSE {LineDebug, LineDebugError}

\* random.randint(a, b): both ends included
RandInt(a, b) == a .. b

(***************************************************************************)
(* The reservoir.  Python's sample[j - 1] is slot j here (sequences are    *)
(* 1-based).                                                               *)
(***************************************************************************)
\* faulty variants of the reservoir: one slot too many, last slot never replaced
MainReservoir_GrowsPastK(smp, entry, j) ==
    IF Len(smp) <= K THEN Append(smp, entry)
    ELSE IF j <= K THEN [smp EXCEPT ![j] = entry]
    ELSE smp

MainReservoir_LastSlotKept(smp, entry, j) ==
    IF Len(smp) < K THEN Append(smp, entry)
    ELSE IF j < K THEN [smp EXCEPT ![j] = entry]
    ELSE smp

\* problem1.main lines 94-99, with k = K
MainReservoir(smp, entry, j) ==
    IF Len(smp) < K THEN Append(smp, entry)
    ELSE IF j <= K THEN [smp EXCEPT ![j] = entry]
    ELSE smp

\* reservoir_sample lines 56-62, for any capacity k
ReservoirStep(smp, k, entry, j) ==
    IF Len(smp) < k THEN Append(smp, entry)
    ELSE IF j <= k THEN [smp EXCEPT ![j] = entry]
    ELSE smp

\* a variant that forgets the lines-with-level counter
CountLine_NoLevelLines(st, path, ln, j) ==
    LET level == LevelSearch(ln)
    IN  IF level = None
        THEN [st EXCEPT !.total_lines = @ + 1]
        ELSE [st EXCEPT !.total_lines = @ + 1,
                        !.counts = [@ EXCEPT ![level] = @ + 1],
                        !.n_kept = @ + 1,
                        !.sample = MainReservoir(@, <<path, ln, level>>, j)]

\* problem1.main lines 85-99: one iteration of the loop, on the accumulator
\* st = [total_lines, level_lines, counts, n_kept, sample]; j is the value
\* random.randint(1, n_kept) returns if it is called
CountLine(st, path, ln, j) ==
    LET level == LevelSearch(ln)
    IN  IF level = None
        THEN [st EXCEPT !.total_lines = @ + 1]
        ELSE [st EXCEPT !.total_lines = @ + 1,
                        !.counts = [@ EXCEPT ![level] = @ + 1],
                        !.level_lines = @ + 1,
                        !.n_kept = @ + 1,
                        !.sample = MainReservoir(@, <<path, ln, level>>, j)]

\* whether the iteration on ln calls random.randint (line 97)
Draws(st, ln) == LevelSearch(ln) # None /\ Len(st.sample) >= K

Acc0 == [total_lines |-> 0, level_lines |-> 0,
         counts |-> [l \in Levels |-> 0], n_kept |-> 0, sample |-> <<>>]

\* lines 107-109: the rows of problem1_counts.csv
RECURSIVE CountsRows(_, _)
CountsRows(cnt, i) ==
    IF i > Len(LevelOrder) THEN <<>>
    ELSE LET lvl == LevelOrder[i]
         IN  (IF cnt[lvl] > 0 THEN <<<<lvl, cnt[lvl]>>>> ELSE <<>>)
             \o CountsRows(cnt, i + 1)

(***************************************************************************)
(* SpecLevels: problem1.main                                               *)
(***************************************************************************)
Init1 ==
    /\ pc1 = "start"
    /\ log_path = 0
    /\ line = <<>>
    /\ total_lines = 0
    /\ level_lines = 0
    /\ counts = [l \in Levels |-> 0]
    /\ sample = <<>>
    /\ n_kept = 0
    /\ counts_csv = <<>>

\* ensure_extracted (lines 24-36), called at line 68
EnsureExtracted1 ==
    /\ pc1 = "start"
    /\ \E has_app_dirs \in BOOLEAN, archive \in BOOLEAN :
          pc1' = IF has_app_dirs \/ archive THEN "glob" ELSE "FileNotFoundError"
    /\ UNCHANGED <<log_path, line, total_lines, level_lines, counts, sample,
                   n_kept, counts_csv>>
    /\ UNCHANGED others1

\* iter_log_lines lines 41-43: the glob yields the next path and it is opened;
\* open() raises OSError on a path that cannot be opened, and nothing catches it
OpenLog1 ==
    /\ pc1 = "glob"
    /\ log_path < MaxLogs
    /\ \E readable \in BOOLEAN :
          pc1' = IF readable THEN "file" ELSE "OSError"
    /\ log_path' = log_path + 1
    /\ UNCHANGED <<line, total_lines, level_lines, counts, sample, n_kept,
                   counts_csv>>
    /\ UNCHANGED others1

\* iter_log_lines lines 44-45 and main lines 84-99: the next line of the file
ReadLine1 ==
    /\ pc1 = "file"
    /\ total_lines < K + MaxOver
    /\ \E ln \in LogLines(log_path), j \in RandInt(1, n_kept + 1) :
          LET st == CountLine([total_lines |-> total_lines,
                               level_lines |-> level_lines,
                               counts |-> counts, n_kept |-> n_kept,
                               sample |-> sample], log_path, ln, j)
          IN  /\ line' = ln
              /\ total_lines' = st.total_lines
              /\ level_lines' = st.level_lines
              /\ counts' = st.counts
              /\ n_kept' = st.n_kept
              /\ sample' = st.sample
    /\ UNCHANGED <<pc1, log_path, counts_csv>>
    /\ UNCHANGED others1

\* end of the file: the with block closes it and the glob goes on
CloseLog1 ==
    /\ pc1 = "file"
    /\ pc1' = "glob"
    /\ UNCHANGED <<log_path, line, total_lines, level_lines, counts, sample, n_kept,
                   counts_csv>>
    /\ UNCHANGED others1

\* the glob is exhausted: main lines 101-136 write the outputs
WriteOutputs1 ==
    /\ pc1 = "glob"
    /\ pc1' = "done"
    /\ counts_csv' = CountsRows(counts, 1)
    /\ UNCHANGED <<log_path, line, total_lines, level_lines, counts, sample,
                   n_kept>>
    /\ UNCHANGED others1

Next1 == EnsureExtracted1 \/ OpenLog1 \/ ReadLine1 \/ CloseLog1 \/ WriteOutputs1

(***************************************************************************)
(* SpecRuns: two runs of problem1, one after the other, on the same corpus *)
(* with the same seed.  corpus is a sequence of files, each a sequence of  *)
(* lines; a file's index in corpus is its path.  glob_order[r] is the      *)
(* order in which RAW_DIR.glob (line 41, not sorted) yields the paths in   *)
(* run r.  stream is the generator's output after random.seed(42):         *)
(* stream[i] decides the i-th call of random.randint.                      *)
(***************************************************************************)
Repeat(x, n) == [i \in 1 .. n |-> x]

Corpora ==
    { << <<LineInfo>>, <<LineWarnError>> >>,
      << <<LineInfo, LineErrorish>>, <<LineInfo, LineErrorish>> >>,
      << Repeat(LineInfo, 6), Repeat(LineWarnError, 6) >>,
      << Repeat(LineInfo, 4), Repeat(LineWarnError, 4), Repeat(LineInfo, 4) >> }

Perms(n) == {p \in [1 .. n -> 1 .. n] : \A i, k \in 1 .. n : p[i] = p[k] => i = k}

\* the calls of randint one run can make, and the raw values of the stream
MaxDraws == 2
MaxRaw == 3

\* random.randint(1, n) on the generator's i-th output
RandIntOf(raw, n) == (raw % n) + 1

\* the stream of (path, line) pairs iter_log_lines yields under an order
RECURSIVE LinesOf(_, _, _)
LinesOf(c, order, i) ==
    IF i > Len(order) THEN <<>>
    ELSE [k \in 1 .. Len(c[order[i]]) |-> <<order[i], c[order[i]][k]>>]
         \o LinesOf(c, order, i + 1)

Run0 == [pos |-> 0, ndraws |-> 0, acc |-> Acc0, done |-> FALSE]

InitR ==
    /\ corpus \in Corpora
    /\ stream \in [1 .. MaxDraws -> 0 .. MaxRaw]
    /\ glob_order \in [1 .. 2 -> Perms(Len(corpus))]
    /\ run = [r \in 1 .. 2 |-> Run0]

\* run r reads its next line: main lines 84-99
RunLine(r) ==
    LET ls == LinesOf(corpus, glob_order[r], 1)
        me == run[r]
    IN  /\ ~me.done
        /\ r = 1 \/ run[1].done
        /\ me.pos < Len(ls)
        /\ LET pl == ls[me.pos + 1]
               d == Draws(me.acc, pl[2])
               j == IF d THEN RandIntOf(stream[me.ndraws + 1], me.acc.n_kept + 1)
                         ELSE 0
           IN  /\ d => me.ndraws < MaxDraws
               /\ run' = [run EXCEPT ![r] =
                            [pos |-> me.pos + 1,
                             ndraws |-> me.ndraws + (IF d THEN 1 ELSE 0),
                             acc |-> CountLine(me.acc, pl[1], pl[2], j),
                             done |-> FALSE]]
        /\ UNCHANGED <<corpus, stream, glob_order>>
        /\ UNCHANGED othersR

\* run r has read every line and writes its outputs
RunEnd(r) ==
    /\ ~run[r].done
    /\ r = 1 \/ run[1].done
    /\ run[r].pos = Len(LinesOf(corpus, glob_order[r], 1))
    /\ run' = [run EXCEPT ![r].done = TRUE]
    /\ UNCHANGED <<corpus, stream, glob_order>>
    /\ UNCHANGED othersR

NextR == \E r \in 1 .. 2 : RunLine(r) \/ RunEnd(r)

(***************************************************************************)
(* SpecUniform: the reservoir under every sequence of draws.  u_runs maps  *)
(* each sequence of values the calls of randint can return to the sample   *)
(* it leaves; the n-th qualifying line is entry n.  A call of              *)
(* randint(1, n) returns each value of 1..n equally often, so every        *)
(* sequence of u_runs' domain is equally likely.                           *)
(***************************************************************************)
Front(s) == SubSeq(s, 1, Len(s) - 1)

UStep(fn, k, smp, entry, j) ==
    IF fn = "main" THEN MainReservoir(smp, entry, j)
    ELSE ReservoirStep(smp, k, entry, j)

InitU ==
    /\ u_fn \in {"main", "reservoir_sample"}
    /\ u_k \in IF u_fn = "main" THEN {K} ELSE 1 .. MaxSmallK
    /\ u_n = 0
    /\ u_skipped = 0
    /\ u_runs = [ds \in {<<>>} |-> <<>>]

\* a line with a level (main line 87) / a line the predicate accepts
\* (reservoir_sample line 53)
UQualify ==
    /\ u_n < u_k + MaxExtra
    /\ u_n' = u_n + 1
    /\ u_runs' =
         IF u_n < u_k
         THEN [ds \in DOMAIN u_runs |-> UStep(u_fn, u_k, u_runs[ds], u_n', 0)]
         ELSE [ds \in {Append(d, j) : d \in DOMAIN u_runs, j \in RandInt(1, u_n')}
                 |-> UStep(u_fn, u_k, u_runs[Front(ds)], u_n', ds[Len(ds)])]
    /\ UNCHANGED <<u_fn, u_k, u_skipped>>
    /\ UNCHANGED othersU

\* a line without a level / a line the predicate rejects
USkip ==
    /\ u_skipped < MaxSkipped
    /\ u_skipped' = u_skipped + 1
    /\ UNCHANGED <<u_fn, u_k, u_n, u_runs>>
    /\ UNCHANGED othersU

NextU == UQualify \/ USkip

(***************************************************************************)
(* problem2: names.  A directory name is a sequence of tokens: the text    *)
(* "application_", a decimal digit, "_" or the letter "x".                 *)
(***************************************************************************)
DigitChars == <<"0", "1", "2", "3", "4", "5", "6", "7", "8", "9">>
IsDigit(c) == c \in Range(DigitChars)
DigitVal(c) == (CHOOSE i \in DOMAIN DigitChars : DigitChars[i] = c) - 1

\* the order of the characters: digits < "_" < "a..." < "x"
Ord(c) ==
    IF IsDigit(c) THEN DigitVal(c)
    ELSE IF c = "_" THEN 10
    ELSE IF c = "application_" THEN 11
    ELSE 12

\* str < str: lexicographic
RECURSIVE StrLess(_, _)
StrLess(a, b) ==
    IF b = <<>> THEN FALSE
    ELSE IF a = <<>> THEN TRUE
    ELSE IF Ord(Head(a)) # Ord(Head(b)) THEN Ord(Head(a)) < Ord(Head(b))
    ELSE StrLess(Tail(a), Tail(b))

\* int(x) of a string of digits, as the digits without leading zeros
RECURSIVE StripZeros(_)
StripZeros(d) ==
    IF Len(d) > 1 /\ Head(d) = "0" THEN StripZeros(Tail(d)) ELSE d

\* int(a) < int(b)
IntLess(a, b) ==
    LET x == StripZeros(a)
        y == StripZeros(b)
    IN  IF Len(x) # Len(y) THEN Len(x) < Len(y) ELSE StrLess(x, y)

\* APP_DIR_RE (line 25) matched at position i: application_(\d{13})_(\d+)$
AppDirAt(name, i) ==
    /\ name[i] = "application_"
    /\ Len(name) >= i + 15
    /\ \A k \in i + 1 .. i + 13 : IsDigit(name[k])
    /\ name[i + 14] = "_"
    /\ \A k \in i + 15 .. Len(name) : IsDigit(name[k])

\* APP_DIR_RE.search(name) (line 68): the leftmost match as <<groups>>, or <<>>
AppDirSearch(name) ==
    LET hits == {i \in DOMAIN name : AppDirAt(name, i)}
    IN  IF hits = {} THEN <<>>
        ELSE LET i == CHOOSE h \in hits : \A g \in hits : h <= g
             IN  << [cluster_id |-> SubSeq(name, i + 1, i + 13),
                     app_number |-> SubSeq(name, i + 15, Len(name))] >>

\* line 72: f"application_{cluster_id}_{app_number}"
AppIdStr(cluster_id, app_number) ==
    <<"application_">> \o cluster_id \o <<"_">> \o app_number

\* the entries "application_*" can match in data/raw
ClusterA == <<"1", "4", "8", "5", "2", "4", "8", "6", "4", "9", "2", "5", "3">>
ClusterB == <<"1", "4", "4", "0", "4", "8", "7", "4", "3", "5", "7", "3", "0">>
Dir(name) == [name |-> name, is_dir |-> TRUE]
Entries ==
    { Dir(AppIdStr(ClusterB, <<"0", "0", "3", "9">>)),
      Dir(AppIdStr(ClusterA, <<"9">>)),
      Dir(AppIdStr(ClusterA, <<"1", "0">>)),
      Dir(<<"application_", "x", "_">> \o AppIdStr(ClusterA, <<"7">>)),
      Dir(AppIdStr(Front(ClusterA), <<"1">>)),
      Dir(AppIdStr(ClusterB, <<>>)),
      [name |-> <<"application_", "x">>, is_dir |-> FALSE] }

\* sorted(...) of a set of names, ascending
RECURSIVE SortNames(_)
SortNames(S) ==
    IF S = {} THEN <<>>
    ELSE LET m == CHOOSE x \in S : \A y \in S : ~StrLess(y, x)
         IN  <<m>> \o SortNames(S \ {m})

\* iter_app_dirs (lines 55-59): the sorted glob, directories only
IterAppDirs(entries) ==
    SortNames({e.name : e \in {x \in entries : x.is_dir}})

(***************************************************************************)
(* problem2: timestamps.  A line is a sequence of tokens [k, v]: a group   *)
(* of two digits (k = "d2", v its value), "/", ":", "sp" (a run of white   *)
(* space) or "w" (other text).                                             *)
(***************************************************************************)
D2(n) == [k |-> "d2", v |-> n]
Tok(s) == [k |-> s, v |-> 0]

\* TS_RE (line 28): ^(\d{2}/\d{2}/\d{2}\s+\d{2}:\d{2}:\d{2})
TsShape == <<"d2", "/", "d2", "/", "d2", "sp", "d2", ":", "d2", ":", "d2">>

\* TS_RE.match(line) (line 78): mt.group(1) as <<text>>, or <<>>
TsMatch(ln) ==
    IF Len(ln) >= Len(TsShape) /\ \A i \in DOMAIN TsShape : ln[i].k = TsShape[i]
    THEN <<SubSeq(ln, 1, Len(TsShape))>>
    ELSE <<>>

IsLeap(y) == (y % 4 = 0 /\ y % 100 # 0) \/ y % 400 = 0
DaysInMonth(y, m) ==
    IF m = 2 THEN (IF IsLeap(y) THEN 29 ELSE 28)
    ELSE IF m \in {4, 6, 9, 11} THEN 30
    ELSE 31

\* parse_ts (lines 31-38): <<datetime>> as <<year, month, day, hour, minute,
\* second>>, or <<>> when datetime.strptime raises ValueError
ParseTs(ts) ==
    LET yy == ts[1].v
        mo == ts[3].v
        dd == ts[5].v
        hh == ts[7].v
        mi == ts[9].v
        ss == ts[11].v
        year == IF yy <= 68 THEN 2000 + yy ELSE 1900 + yy
    IN  IF /\ mo \in 1 .. 12
           /\ dd \in 1 .. 31
           /\ hh \in 0 .. 23
           /\ mi \in 0 .. 59
           /\ ss \in 0 .. 61
           /\ dd <= DaysInMonth(year, mo)
           /\ ss <= 59
        THEN << <<(IF year < 2000 THEN year + 100 ELSE year), mo, dd, hh, mi, ss>> >>
        ELSE <<>>

\* datetime < datetime
RECURSIVE DtLess(_, _)
DtLess(a, b) ==
    IF a = <<>> \/ b = <<>> THEN FALSE
    ELSE IF Head(a) # Head(b) THEN Head(a) < Head(b)
    ELSE DtLess(Tail(a), Tail(b))

\* the decimal digits of n, zero-padded to w places
RECURSIVE Pad(_, _)
Pad(n, w) ==
    IF w = 0 THEN <<>> ELSE Pad(n \div 10, w - 1) \o <<DigitChars[(n % 10) + 1]>>

\* format_dt (lines 98-99): "%Y-%m-%d %H:%M:%S"
FormatDt(dt) ==
    Pad(dt[1], 4) \o <<"-">> \o Pad(dt[2], 2) \o <<"-">> \o Pad(dt[3], 2)
    \o <<" ">> \o Pad(dt[4], 2) \o <<":">> \o Pad(dt[5], 2) \o <<":">> \o Pad(dt[6], 2)

\* str(n) of a count
RECURSIVE Str(_)
Str(n) == IF n < 10 THEN <<DigitChars[n + 1]>>
          ELSE Str(n \div 10) \o <<DigitChars[(n % 10) + 1]>>

TsLine(yy, mo, dd, hh, mi, ss) ==
    <<D2(yy), Tok("/"), D2(mo), Tok("/"), D2(dd), Tok("sp"),
      D2(hh), Tok(":"), D2(mi), Tok(":"), D2(ss), Tok("sp"), Tok("w")>>

\* "17/03/29 10:04:41 INFO Started", "16/02/29 23:59:59 x", "70/12/31 00:00:00 x",
\* "17/02/29 10:04:41 x", "99/99/99 99:99:99 x", "random text",
\* " 17/03/29 10:04:41"
TimeLines ==
    { TsLine(17, 3, 29, 10, 4, 41),
      TsLine(16, 2, 29, 23, 59, 59),
      TsLine(70, 12, 31, 0, 0, 0),
      TsLine(17, 2, 29, 10, 4, 41),
      TsLine(99, 99, 99, 99, 99, 99),
      <<Tok("w"), Tok("sp"), Tok("w")>>,
      <<Tok("sp")>> \o TsLine(17, 3, 29, 10, 4, 41) }

\* a mapping with key k set to v (dict assignment)
Put(f, k, v) == [x \in DOMAIN f \cup {k} |-> IF x = k THEN v ELSE f[x]]
EmptyMap == [x \in {} |-> 0]

\* sorted(keys, key=lambda x: int(x)) (line 210)
RECURSIVE SortByInt(_)
SortByInt(S) ==
    IF S = {} THEN <<>>
    ELSE LET m == CHOOSE x \in S : \A y \in S : ~IntLess(y, x)
         IN  <<m>> \o SortByInt(S \ {m})

\* lines 209-218: the rows of problem2_cluster_summary.csv
ClusterSummaryRows(cnt, first, last) ==
    LET keys == SortByInt(DOMAIN cnt)
    IN  [i \in DOMAIN keys |->
            <<keys[i], Str(cnt[keys[i]]), FormatDt(first[keys[i]]),
              FormatDt(last[keys[i]])>>]

(***************************************************************************)
(* SpecTimes: problem2.main                                                *)
(***************************************************************************)
NoApp == [name |-> <<>>, cluster_id |-> <<>>, app_id |-> <<>>, app_number |-> <<>>]

\* variants of the min/max trackers with the comparison turned round
Earliest_Latest(cur_dt, dt) ==
    IF cur_dt = <<>> \/ DtLess(cur_dt[1], dt) THEN <<dt>> ELSE cur_dt

\* lines 82-83 and 197-198: keep the earlier instant (<<>> is None / no key)
Earliest(cur_dt, dt) ==
    IF cur_dt = <<>> \/ DtLess(dt, cur_dt[1]) THEN <<dt>> ELSE cur_dt

\* lines 84-85 and 199-200: keep the later instant
Latest(cur_dt, dt) ==
    IF cur_dt = <<>> \/ DtLess(cur_dt[1], dt) THEN <<dt>> ELSE cur_dt

\* dict lookup that tells a missing key: <<value>> or <<>>
Get(f, k) == IF k \in DOMAIN f THEN <<f[k]>> ELSE <<>>

\* the contents data/raw can have
EntrySets == {S \in SUBSET Entries : Cardinality(S) <= MaxDirs}

Init2 ==
    /\ pc2 = "start"
    /\ fs_entries \in EntrySets
    \* the archive is looked for only when no entry is there (lines 43-45)
    /\ archive_exists \in IF fs_entries = {} THEN BOOLEAN ELSE {TRUE}
    /\ todo = <<>>
    /\ cur = NoApp
    /\ n_files = 0
    /\ n_lines = 0
    /\ start_dt = <<>>
    /\ end_dt = <<>>
    /\ seen_ts = {}
    /\ scanned = <<>>
    /\ timeline_rows = <<>>
    /\ cluster_counts = EmptyMap
    /\ cluster_first = EmptyMap
    /\ cluster_last = EmptyMap
    /\ cluster_summary_rows = <<>>

\* ensure_extracted (lines 41-52), called at line 172, and the sorted glob of
\* iter_app_dirs that the loop of line 182 starts
EnsureExtracted2 ==
    /\ pc2 = "start"
    /\ \/ /\ fs_entries # {}
          /\ pc2' = "main"
          /\ fs_entries' = fs_entries
       \/ /\ fs_entries = {}
          /\ ~archive_exists
          /\ pc2' = "FileNotFoundError"
          /\ fs_entries' = fs_entries
       \/ /\ fs_entries = {}
          /\ archive_exists
          /\ pc2' = "main"
          /\ fs_entries' \in EntrySets
    /\ todo' = IF pc2' = "main" THEN IterAppDirs(fs_entries') ELSE <<>>
    /\ UNCHANGED <<archive_exists, cur, n_files, n_lines, start_dt, end_dt,
                   seen_ts, scanned, timeline_rows, cluster_counts,
                   cluster_first, cluster_last, cluster_summary_rows>>
    /\ UNCHANGED others2

\* line 182 yields the next directory; scan_app_times lines 68-74
NextAppDir ==
    /\ pc2 = "main"
    /\ todo # <<>>
    /\ LET name == Head(todo)
           m == AppDirSearch(name)
       IN  IF m = <<>>
           THEN /\ pc2' = "ValueError_name"
                /\ cur' = [NoApp EXCEPT !.name = name]
           ELSE /\ pc2' = "scan"
                /\ cur' = [name |-> name,
                           cluster_id |-> m[1].cluster_id,
                           app_id |-> AppIdStr(m[1].cluster_id, m[1].app_number),
                           app_number |-> m[1].app_number]
    /\ todo' = Tail(todo)
    /\ UNCHANGED <<fs_entries, archive_exists, n_files, n_lines, start_dt,
                   end_dt, seen_ts, scanned, timeline_rows, cluster_counts,
                   cluster_first, cluster_last, cluster_summary_rows>>
    /\ UNCHANGED others2

\* lines 75-76: the glob of the directory yields a log file and it is opened;
\* open() raises OSError on a path that cannot be opened, and nothing catches it
OpenLog2 ==
    /\ pc2 = "scan"
    /\ n_files < MaxFilesPerDir
    /\ \E readable \in BOOLEAN :
          pc2' = IF readable THEN "read" ELSE "OSError"
    /\ n_files' = n_files + 1
    /\ UNCHANGED <<fs_entries, archive_exists, todo, cur, n_lines, start_dt,
                   end_dt, seen_ts, scanned, timeline_rows, cluster_counts,
                   cluster_first, cluster_last, cluster_summary_rows>>
    /\ UNCHANGED others2

\* lines 77-85: the next line of the open file
ReadLine2 ==
    /\ pc2 = "read"
    /\ n_lines < MaxLinesPerDir
    /\ n_lines' = n_lines + 1
    /\ \E ln \in TimeLines :
          LET mt == TsMatch(ln)
              dt == IF mt = <<>> THEN <<>> ELSE ParseTs(mt[1])
          IN  \/ /\ mt = <<>>
                 /\ UNCHANGED <<pc2, start_dt, end_dt, seen_ts>>
              \/ /\ mt # <<>>
                 /\ dt = <<>>
                 /\ pc2' = "ValueError_ts"
                 /\ UNCHANGED <<start_dt, end_dt, seen_ts>>
              \/ /\ mt # <<>>
                 /\ dt # <<>>
                 /\ start_dt' = Earliest(start_dt, dt[1])
                 /\ end_dt' = Latest(end_dt, dt[1])
                 /\ seen_ts' = seen_ts \cup {dt[1]}
                 /\ UNCHANGED pc2
    /\ UNCHANGED <<fs_entries, archive_exists, todo, cur, n_files, scanned,
                   timeline_rows, cluster_counts, cluster_first, cluster_last,
                   cluster_summary_rows>>
    /\ UNCHANGED others2

\* the end of the open file
CloseLog2 ==
    /\ pc2 = "read"
    /\ pc2' = "scan"
    /\ UNCHANGED <<fs_entries, archive_exists, todo, cur, n_files, n_lines,
                   start_dt, end_dt, seen_ts, scanned, timeline_rows,
                   cluster_counts, cluster_first, cluster_last,
                   cluster_summary_rows>>
    /\ UNCHANGED others2

\* line 87 returns, and main lines 183-202 take the result
ReturnScan ==
    /\ pc2 = "scan"
    /\ pc2' = "main"
    /\ scanned' = Append(scanned, [name |-> cur.name, seen |-> seen_ts])
    /\ IF start_dt = <<>> \/ end_dt = <<>>
       THEN UNCHANGED <<timeline_rows, cluster_counts, cluster_first,
                        cluster_last>>
       ELSE LET cid == cur.cluster_id
            IN  /\ timeline_rows' = Append(timeline_rows,
                      <<cid, cur.app_id, cur.app_number,
                        FormatDt(start_dt[1]), FormatDt(end_dt[1])>>)
                /\ cluster_counts' = Put(cluster_counts, cid,
                      IF cid \in DOMAIN cluster_counts
                      THEN cluster_counts[cid] + 1 ELSE 1)
                /\ cluster_first' = Put(cluster_first, cid,
                      Earliest(Get(cluster_first, cid), start_dt[1])[1])
                /\ cluster_last' = Put(cluster_last, cid,
                      Latest(Get(cluster_last, cid), end_dt[1])[1])
    /\ n_files' = 0
    /\ n_lines' = 0
    /\ start_dt' = <<>>
    /\ end_dt' = <<>>
    /\ seen_ts' = {}
    /\ UNCHANGED <<fs_entries, archive_exists, todo, cur, cluster_summary_rows>>
    /\ UNCHANGED others2

\* the loop has ended: lines 204-254 write the reports
WriteReports ==
    /\ pc2 = "main"
    /\ todo = <<>>
    /\ pc2' = "done"
    /\ cluster_summary_rows' =
          ClusterSummaryRows(cluster_counts, cluster_first, cluster_last)
    /\ UNCHANGED <<fs_entries, archive_exists, todo, cur, n_files, n_lines,
                   start_dt, end_dt, seen_ts, scanned, timeline_rows,
                   cluster_counts, cluster_first, cluster_last>>
    /\ UNCHANGED others2

Next2 ==
    \/ EnsureExtracted2 \/ NextAppDir \/ OpenLog2 \/ ReadLine2 \/ CloseLog2
    \/ ReturnScan \/ WriteReports

(***************************************************************************)
(* The four specifications.  Each runs one part; the variables of the      *)
(* other parts rest at a fixed value.                                      *)
(***************************************************************************)
Rest1 == Init1
RestR ==
    /\ corpus = <<>>
    /\ stream = <<>>
    /\ glob_order = <<>>
    /\ run = <<>>
RestU ==
    /\ u_fn = "main"
    /\ u_k = K
    /\ u_n = 0
    /\ u_skipped = 0
    /\ u_runs = <<>>
Rest2 ==
    /\ Init2
    /\ fs_entries = {}
    /\ archive_exists = FALSE

InitLevels == Init1 /\ RestR /\ RestU /\ Rest2
NextLevels == Next1
SpecLevels == InitLevels /\ [][NextLevels]_vars

InitRuns == Rest1 /\ InitR /\ RestU /\ Rest2
NextRuns == NextR
SpecRuns == InitRuns /\ [][NextRuns]_vars

InitUniform == Rest1 /\ RestR /\ InitU /\ Rest2
NextUniform == NextU
SpecUniform == InitUniform /\ [][NextUniform]_vars

InitTimes == Rest1 /\ RestR /\ RestU /\ Init2
NextTimes == Next2
SpecTimes == InitTimes /\ [][NextTimes]_vars

(***************************************************************************)
(* Properties                                                              *)
(***************************************************************************)
Min(a, b) == IF a <= b THEN a ELSE b
SumCounts(cnt) == cnt["INFO"] + cnt["WARN"] + cnt["ERROR"] + cnt["DEBUG"]

C1_Inv ==
    /\ total_lines >= level_lines
    /\ level_lines = SumCounts(counts)

C1_Step ==
    IF total_lines' = total_lines
    THEN level_lines' = level_lines /\ counts' = counts
    ELSE /\ total_lines' = total_lines + 1
         /\ IF LevelSearch(line') # None
            THEN /\ level_lines' = level_lines + 1
                 /\ counts' = [counts EXCEPT ![LevelSearch(line')] = @ + 1]
            ELSE /\ level_lines' = level_lines
                 /\ counts' = counts

\* C1: in problem1.main, after any prefix of the line stream,
\* total_lines >= level_lines = the sum of the four level counters; every line
\* read adds exactly one to total_lines, and a line adds one to level_lines and
\* to exactly one level counter if it has a level, and nothing otherwise.
C1_CountsConsistent == []C1_Inv /\ [][C1_Step]_vars

\* C1's case: lines with two different levels and a line without level were read
C1_Witness ==
    /\ counts["INFO"] > 0
    /\ counts["WARN"] > 0
    /\ total_lines > level_lines

\* C2: in problem1.main the sample holds exactly min(K, level_lines) entries
\* after any prefix of the stream, whatever the draws; it never shrinks (and so
\* never exceeds K).
C2_SampleSize ==
    /\ [](Len(sample) = Min(K, level_lines) /\ Len(sample) <= K)
    /\ [][Len(sample') >= Len(sample)]_vars

\* C2's case: more than K lines with a level were read, and a draw replaced a
\* slot of the full sample by a line of a later file
C2_Witness ==
    /\ level_lines > K
    /\ Len(sample) = K
    /\ \E i \in 1 .. K - 1 : sample[i][1] > sample[i + 1][1]

\* C9: a log file that cannot be opened or read is skipped and the walk goes
\* on; only a missing root or archive ends the pass.
C9_UnreadableFileSkipped ==
    pc1 \in {"FileNotFoundError", "OSError"} => pc1 = "FileNotFoundError"

\* C6: with the same seed and the same corpus, two runs of problem1 end with
\* the same sample, entry by entry and slot by slot, whatever order the glob
\* yields the files in.
C6_SameSample ==
    (run # <<>> /\ run[1].done /\ run[2].done)
        => run[1].acc.sample = run[2].acc.sample

\* the sequences of draws that leave entry i in the sample
Keeping(i) == {ds \in DOMAIN u_runs : i \in Range(u_runs[ds])}

\* C7: once N >= K qualifying lines were seen, each of the N lines is in the
\* sample in the same fraction K/N of the equally likely sequences of draws,
\* at every prefix of the stream.
C7_Uniform ==
    (u_runs # <<>> /\ u_n >= u_k) =>
        \A i \in 1 .. u_n :
            Cardinality(Keeping(i)) * u_n = u_k * Cardinality(DOMAIN u_runs)

\* C7's case: main's reservoir after K + 2 qualifying lines, where some
\* sequences of draws evicted the first line and others kept it
C7_Witness ==
    /\ u_runs # <<>>
    /\ u_fn = "main"
    /\ u_n = K + 2
    /\ Keeping(1) # {}
    /\ Keeping(1) # DOMAIN u_runs

\* the earliest and the latest of a non-empty set of instants
MinDt(S) == CHOOSE x \in S : \A y \in S : ~DtLess(y, x)
MaxDt(S) == CHOOSE x \in S : \A y \in S : ~DtLess(x, y)

\* the scans that returned with at least one parsed timestamp
RECURSIVE WithTs(_)
WithTs(sc) ==
    IF sc = <<>> THEN <<>>
    ELSE (IF Head(sc).seen # {} THEN <<Head(sc)>> ELSE <<>>) \o WithTs(Tail(sc))

\* C3: the timeline has exactly one row per application directory with at
\* least one parseable timestamp line, with start the minimum and end the
\* maximum of the directory's parsed timestamps; a directory with no
\* parseable timestamp line gives no row and does not abort the run.
C3_TimelineExact ==
    /\ LET w == WithTs(scanned)
       IN  /\ Len(timeline_rows) = Len(w)
           \* the i-th row is the row of the i-th such directory
           /\ \A i \in DOMAIN w :
                 /\ timeline_rows[i][4] = FormatDt(MinDt(w[i].seen))
                 /\ timeline_rows[i][5] = FormatDt(MaxDt(w[i].seen))
    /\ pc2 = "done" => Len(scanned) = Len(IterAppDirs(fs_entries))
    /\ ~(pc2 = "ValueError_ts" /\ seen_ts = {})

\* C4: no log line aborts a pass: whatever the line holds, the scan goes on
\* to the next line.
C4_NoLineAbortsPass == pc2 # "ValueError_ts"

\* C5: scan_app_times goes on to read files only for a directory whose whole
\* name is application_<13 digits>_<digits>, and every timeline row comes
\* from such a name.
C5_OnlyExactNames ==
    /\ pc2 \in {"scan", "read"} => AppDirAt(cur.name, 1)
    /\ \A i \in DOMAIN timeline_rows :
          timeline_rows[i][2] \in {e.name : e \in fs_entries}

\* key(a) <= key(b) for the numeric key (int(cluster_id), int(app_number))
KeyLeq(a, b) ==
    \/ IntLess(a[1], b[1])
    \/ /\ ~IntLess(b[1], a[1])
       /\ ~IntLess(b[3], a[3])

\* C8: the cluster summary is in ascending order of int(cluster_id) and the
\* timeline in ascending order of (int(cluster_id), int(app_number)), for
\* every set of directories named application_<13 digits>_<digits>.
C8_TablesSorted ==
    (pc2 = "done" /\ \A e \in fs_entries : e.is_dir => AppDirAt(e.name, 1)) =>
        /\ \A i, k \in DOMAIN cluster_summary_rows :
              i < k => ~IntLess(cluster_summary_rows[k][1],
                                cluster_summary_rows[i][1])
        /\ \A i, k \in DOMAIN timeline_rows :
              i < k => KeyLeq(timeline_rows[i], timeline_rows[k])

RowsOf(c) == {i \in DOMAIN timeline_rows : timeline_rows[i][1] = c}
Clusters == {timeline_rows[i][1] : i \in DOMAIN timeline_rows}

RECURSIVE SumOver(_, _)
SumOver(f, S) ==
    IF S = {} THEN 0
    ELSE LET x == CHOOSE y \in S : TRUE IN f[x] + SumOver(f, S \ {x})

\* C10: after any prefix of the directories, each cluster's count is the
\* number of its timeline rows, its first the minimum start and its last the
\* maximum end of those rows; the counts add up to the number of rows; the
\* clusters counted, and the rows of the summary, are exactly the clusters
\* with a timeline row.
C10_ClusterSummary ==
    /\ DOMAIN cluster_counts = Clusters
    /\ DOMAIN cluster_first = Clusters
    /\ DOMAIN cluster_last = Clusters
    /\ SumOver(cluster_counts, Clusters) = Len(timeline_rows)
    /\ \A c \in Clusters :
          /\ cluster_counts[c] = Cardinality(RowsOf(c))
          /\ \E i \in RowsOf(c) : timeline_rows[i][4] = FormatDt(cluster_first[c])
          /\ \A i \in RowsOf(c) :
                ~StrLess(timeline_rows[i][4], FormatDt(cluster_first[c]))
          /\ \E i \in RowsOf(c) : timeline_rows[i][5] = FormatDt(cluster_last[c])
          /\ \A i \in RowsOf(c) :
                ~StrLess(FormatDt(cluster_last[c]), timeline_rows[i][5])
    /\ pc2 = "done" =>
          /\ Len(cluster_summary_rows) = Cardinality(Clusters)
          /\ {cluster_summary_rows[i][1] : i \in DOMAIN cluster_summary_rows}
                = Clusters
          /\ \A i \in DOMAIN cluster_summary_rows :
                LET c == cluster_summary_rows[i][1]
                IN  /\ cluster_summary_rows[i][2] = Str(cluster_counts[c])
                    /\ cluster_summary_rows[i][3] = FormatDt(cluster_first[c])
                    /\ cluster_summary_rows[i][4] = FormatDt(cluster_last[c])

\* C10's case: a cluster with two applications whose time ranges differ
C10_Witness ==
    \E c \in Clusters :
        /\ cluster_counts[c] = 2
        /\ \E i, k \in RowsOf(c) :
              /\ StrLess(timeline_rows[i][4], timeline_rows[k][4])
              /\ StrLess(timeline_rows[i][5], timeline_rows[k][5])

====
